---- MODULE Spec2Model ----
(***************************************************************************)
(* Experience-replay and temporal-difference core of rl-basics:            *)
(*   rl_gym/dqn.py        DQN, hard target copy, ReplayMemory              *)
(*   src/dqn/dqn_atari.py DQN on Atari, Polyak target, windowed buffer     *)
(*   src/pytorch/td3.py   TD3, twin critics, delayed policy update         *)
(* Real-valued quantities are fixed-point integers.                        *)
(***************************************************************************)
EXTENDS Integers, Sequences, FiniteSets, TLC

\* ------------------------------------------------------------- bounds
MaxCapacity == 3
MaxBatch == 4
MaxPushes == 5
WinMaxCapacity == 8
WinMaxBatch == 2
WinMaxPushes == 9
NumActions == 2
MaxReward == 1
MaxSteps == 10
MaxFrequency == 3
MaxNoise == 1
MaxScheduleStep == 16

VARIABLES
    store_kind,        \* which class the store is an instance of
    buffer,            \* the deque, oldest entry first
    maxlen,            \* deque(maxlen=buffer_size)
    batch_size,        \* self.batch_size
    pushes,            \* number of push calls made so far (history)
    outcome,           \* what the most recent call returned: "none" (push),
                       \* "batch" or the exception raised (sample)
    sample_positions,  \* 0-based positions drawn by that sample call
    batch,             \* the transitions that sample call returned
    population,        \* windowed buffer: the indices offered to the draw
    reads              \* windowed buffer: every index get_states used on
                       \* self.buffer during that sample call

storeVars == <<store_kind, buffer, maxlen, batch_size, pushes, outcome,
               sample_positions, batch, population, reads>>

VARIABLES
    algo,                 \* which script computes the target
    rewards,              \* reward of the sampled transition
    flags,                \* its terminal flag, 0 or 1
    gamma,                \* args.gamma as <<numerator, denominator>>
    live_q,               \* policy_net(next_states), one value per action
    target_q,             \* target_net(next_states), one value per action
    critic1_next_target,  \* critic1_target(next_states, next_state_actions)
    critic2_next_target,  \* critic2_target(next_states, next_state_actions)
    bootstrap,            \* max_q_target / min_qf_next_target
    td_target,            \* td_target / next_q_value
    tpc,                  \* "sampled" before the target is computed, "computed" after
    target_actor_out,     \* td3: target_actor(next_states)
    raw_noise,            \* td3: torch.randn_like(actions) * args.policy_noise
    noise_clip,           \* td3: args.noise_clip
    critic1_target,       \* td3: the parameters of critic1_target
    critic2_target,       \* td3: the parameters of critic2_target
    clipped_noise,        \* td3: clipped_noise
    next_state_actions    \* td3: next_state_actions

smoothVars == <<target_actor_out, raw_noise, noise_clip, critic1_target,
                critic2_target, clipped_noise, next_state_actions>>

targetVars == <<algo, rewards, flags, gamma, live_q, target_q,
                critic1_next_target, critic2_next_target, bootstrap, td_target, tpc,
                smoothVars>>

VARIABLES
    global_step,  \* the loop variable: the index of the next iteration
    lpc,          \* "loop" while iterating, "done" after env.close(),
                  \* "crashed" when an exception ended the run
    cfg,          \* the parsed arguments (args)
    net,          \* the parameters of every network, one value each
    it,           \* what the most recent iteration did (history)
    hist          \* counts of optimizer steps and synchronisations (history)

loopVars == <<global_step, lpc, cfg, net, it, hist>>

VARIABLES
    eps_start,       \* args.eps_start
    eps_end,         \* args.eps_end
    eps_decay,       \* args.eps_decay
    at_step,         \* the step of the most recent evaluation
    eps_threshold,   \* the value that evaluation returned
    prev_step,       \* the step of the evaluation before it (history), -1: none
    prev_threshold,  \* the value that earlier evaluation returned (history)
    spc              \* "ready", "evaluated", or the exception raised

scheduleVars == <<eps_start, eps_end, eps_decay, at_step, eps_threshold,
                  prev_step, prev_threshold, spc>>

vars == <<storeVars, targetVars, loopVars, scheduleVars>>

\* ------------------------------------------------------------ helpers
Min(a, b) == IF a <= b THEN a ELSE b

Max(a, b) == IF a >= b THEN a ELSE b

Range(s) == {s[i] : i \in DOMAIN s}

\* variant: a full deque refuses the new entry
DequeAppendDropNewest(buf, n, x) == IF Len(buf) >= n THEN buf ELSE Append(buf, x)

\* collections.deque(maxlen=n).append(x): append on the right, and drop the
\* leftmost entry when the deque is already full

DequeAppend(buf, n, x) ==
    IF Len(buf) >= n THEN Append(Tail(buf), x) ELSE Append(buf, x)

\* the orders in which k pairwise distinct 0-based positions of a population
\* of n can be drawn
Selections(n, k) ==
    {s \in [1..k -> 0..(n - 1)] : \A i, j \in 1..k : i # j => s[i] # s[j]}

\* variant: positions drawn with replacement
RandomSampleWithReplacement(n, k) ==
    IF k > n THEN {[raised |-> "ValueError", sel |-> <<>>]}
    ELSE {[raised |-> "", sel |-> s] : s \in [1..k -> 0..(n - 1)]}

\* random.sample(population, k): ValueError when k exceeds the population,
\* otherwise k entries from k distinct positions, in selection order

RandomSample(n, k) ==
    IF k > n THEN {[raised |-> "ValueError", sel |-> <<>>]}
    ELSE {[raised |-> "", sel |-> s] : s \in Selections(n, k)}

\* the parts of the state a specification does not use stay as constructed
SmoothUnused ==
    /\ target_actor_out = 0
    /\ raw_noise = 0
    /\ noise_clip = 0
    /\ critic1_target = <<>>
    /\ critic2_target = <<>>
    /\ clipped_noise = 0
    /\ next_state_actions = 0

TargetUnused ==
    /\ rewards = 0
    /\ flags = 0
    /\ gamma = <<0, 1>>
    /\ live_q = <<>>
    /\ target_q = <<>>
    /\ critic1_next_target = 0
    /\ critic2_next_target = 0
    /\ bootstrap = 0
    /\ td_target = 0
    /\ tpc = "idle"
    /\ SmoothUnused

TargetIdle == algo = "none" /\ TargetUnused

NoIteration ==
    [step |-> -1, source |-> "none", u |-> 0, eps |-> 0, action |-> 0,
     stepped |-> {}, written |-> {}, raised |-> ""]

NoHistory == [opt_steps |-> 0, syncs |-> 0, since |-> 0, gap |-> 0]

LoopIdle ==
    /\ global_step = 0
    /\ lpc = "idle"
    /\ cfg = <<>>
    /\ net = <<>>
    /\ it = NoIteration
    /\ hist = NoHistory

ScheduleIdle ==
    /\ eps_start = 0
    /\ eps_end = 0
    /\ eps_decay = 1
    /\ at_step = 0
    /\ eps_threshold = 0
    /\ prev_step = -1
    /\ prev_threshold = 0
    /\ spc = "idle"

StoreIdle ==
    /\ store_kind = "none"
    /\ maxlen = 1
    /\ batch_size = 1
    /\ buffer = <<>>
    /\ pushes = 0
    /\ outcome = "none"
    /\ sample_positions = <<>>
    /\ batch = <<>>
    /\ population = {}
    /\ reads = {}


\* --------------------------------------------- ReplayMemory / ReplayBuffer
StoreKinds == {"ReplayMemory", "ReplayBuffer"}

\* the k-th push stores the transition of step k
Transition(k) == k

InitStore ==
    /\ store_kind \in StoreKinds
    /\ maxlen \in 1..MaxCapacity
    /\ batch_size \in 1..MaxBatch
    /\ buffer = <<>>
    /\ pushes = 0
    /\ outcome = "none"
    /\ sample_positions = <<>>
    /\ batch = <<>>
    /\ population = {}
    /\ reads = {}
    /\ TargetIdle
    /\ LoopIdle
    /\ ScheduleIdle

\* rl_gym/dqn.py ReplayMemory.push
ReplayMemory_push ==
    /\ store_kind = "ReplayMemory"
    /\ pushes < MaxPushes
    /\ buffer' = DequeAppend(buffer, maxlen, Transition(pushes + 1))
    /\ pushes' = pushes + 1
    /\ outcome' = "none"
    /\ sample_positions' = <<>>
    /\ batch' = <<>>
    /\ UNCHANGED <<store_kind, maxlen, batch_size, population, reads>>
    /\ UNCHANGED <<targetVars, loopVars, scheduleVars>>

\* pytorch/td3.py ReplayBuffer.push
ReplayBuffer_push ==
    /\ store_kind = "ReplayBuffer"
    /\ pushes < MaxPushes
    /\ buffer' = DequeAppend(buffer, maxlen, Transition(pushes + 1))
    /\ pushes' = pushes + 1
    /\ outcome' = "none"
    /\ sample_positions' = <<>>
    /\ batch' = <<>>
    /\ UNCHANGED <<store_kind, maxlen, batch_size, population, reads>>
    /\ UNCHANGED <<targetVars, loopVars, scheduleVars>>

\* what sample can return on the deque buf with batch size b: the draw either
\* raises or yields the entries at the drawn positions
SampleResults(buf, b) ==
    {[outcome |-> IF r.raised = "" THEN "batch" ELSE r.raised,
      sample_positions |-> r.sel,
      batch |-> [i \in 1..Len(r.sel) |-> buf[r.sel[i] + 1]]] :
        r \in RandomSample(Len(buf), b)}

StoreSample ==
    \E r \in SampleResults(buffer, batch_size) :
        /\ outcome' = r.outcome
        /\ sample_positions' = r.sample_positions
        /\ batch' = r.batch
        /\ UNCHANGED <<store_kind, buffer, maxlen, batch_size, pushes,
                       population, reads>>
        /\ UNCHANGED <<targetVars, loopVars, scheduleVars>>

\* rl_gym/dqn.py ReplayMemory.sample
ReplayMemory_sample == store_kind = "ReplayMemory" /\ StoreSample

\* pytorch/td3.py ReplayBuffer.sample
ReplayBuffer_sample == store_kind = "ReplayBuffer" /\ StoreSample

NextStore ==
    \/ ReplayMemory_push
    \/ ReplayBuffer_push
    \/ ReplayMemory_sample
    \/ ReplayBuffer_sample

SpecStore == InitStore /\ [][NextStore]_vars

\* ------------------------------------- windowed ReplayBuffer (dqn_atari.py)
\* frames stacked by gym.wrappers.FrameStack(env, 4) and rebuilt by get_states
Window == 4

\* the first index sample offers to the draw: range(5, self.size)
FirstSampleIndex == 5

\* a pixel of the frame of step k as AtariPreprocessing(env, scale_obs=True)
\* delivers it: a float of [0, 1], here counted in halves (0, 1/2 or 1)
Pixel(k) == k % 3

\* the frame the environment shows at step k: its content, and the step it
\* comes from
Frame(k) == [step |-> k, pixel |-> Pixel(k)]

\* the FrameStack observation at step k, oldest frame first; the stack is
\* filled with the first frame at reset
Observation(k) == [i \in 1..Window |-> Frame(Max(1, k - Window + i))]

\* tensor.to(dtype=torch.uint8) of a float of [0, 1] counted in halves: the
\* fraction is cut off, the result is a whole number
ToUint8(x) == x \div 2

\* tensor.to(dtype=torch.float32) of a uint8: the same number, in halves
ToFloat32(u) == u * 2

\* what push appends at step k: the last frame of the observation as uint8,
\* and the action, reward and flag of that step
WinTransition(k) ==
    [state |-> [Observation(k)[Window] EXCEPT !.pixel = ToUint8(@)],
     action |-> k, reward |-> k, flag |-> k]

\* deque.__getitem__(j) on n entries: the 1-based place read, 0 for IndexError;
\* a negative j counts from the newest end
DequeIndex(n, j) ==
    IF 0 <= j /\ j < n THEN j + 1
    ELSE IF -n <= j /\ j < 0 THEN n + j + 1
    ELSE 0

\* variants: range(3, self.size) and range(4, self.size)
SampleRangeWindowOnly(n) == {i \in 0..(n - 1) : i >= Window - 1}

SampleRangeFromWindow(n) == {i \in 0..(n - 1) : i >= Window}

\* range(5, self.size)
SampleRange(n) == {i \in 0..(n - 1) : i >= FirstSampleIndex}

\* np.random.choice(a, size=k, replace=False): ValueError when a is empty or
\* has fewer than k entries, otherwise k pairwise distinct entries of a
NumpyChoice(pop, k) ==
    IF pop = {} \/ k > Cardinality(pop)
    THEN {[raised |-> "ValueError", sel |-> <<>>]}
    ELSE {[raised |-> "", sel |-> s] :
            s \in {t \in [1..k -> pop] : \A i, j \in 1..k : i # j => t[i] # t[j]}}

\* the indices get_states(index_ns) uses on self.buffer
GetStatesReads(index_ns) ==
    LET index_s == index_ns - 1 IN
    {index_s - i : i \in 0..(Window - 1)} \cup {index_ns - i : i \in 0..(Window - 1)}

\* get_states(index_ns): the two stacks, in the order torch.stack receives them
GetStates(buf, index_ns) ==
    LET index_s == index_ns - 1
        n == Len(buf)
        stored(j) == buf[DequeIndex(n, j)].state
        float32(f) == [f EXCEPT !.pixel = ToFloat32(@)]
    IN  [state |-> [i \in 1..Window |-> float32(stored(index_s - (i - 1)))],
         next_state |-> [i \in 1..Window |-> float32(stored(index_ns - (i - 1)))]]

InitWindow ==
    /\ store_kind = "AtariReplayBuffer"
    /\ maxlen \in 1..WinMaxCapacity
    /\ batch_size \in 1..WinMaxBatch
    /\ buffer = <<>>
    /\ pushes = 0
    /\ outcome = "none"
    /\ sample_positions = <<>>
    /\ batch = <<>>
    /\ population = {}
    /\ reads = {}
    /\ TargetIdle
    /\ LoopIdle
    /\ ScheduleIdle

\* src/dqn/dqn_atari.py ReplayBuffer.push
AtariReplayBuffer_push ==
    /\ store_kind = "AtariReplayBuffer"
    /\ pushes < WinMaxPushes
    /\ buffer' = DequeAppend(buffer, maxlen, WinTransition(pushes + 1))
    /\ pushes' = pushes + 1
    /\ outcome' = "none"
    /\ sample_positions' = <<>>
    /\ batch' = <<>>
    /\ population' = {}
    /\ reads' = {}
    /\ UNCHANGED <<store_kind, maxlen, batch_size>>
    /\ UNCHANGED <<targetVars, loopVars, scheduleVars>>

\* what the windowed sample can return on the deque buf with batch size b
WinSampleResults(buf, b) ==
    LET n == Len(buf)
        pop == SampleRange(n)
    IN  {LET used == UNION {GetStatesReads(r.sel[i]) : i \in 1..Len(r.sel)}
             bad == \E j \in used : DequeIndex(n, j) = 0
         IN  [outcome |-> IF r.raised # "" THEN r.raised
                          ELSE IF bad THEN "IndexError" ELSE "batch",
              population |-> pop,
              sample_positions |-> r.sel,
              reads |-> used,
              batch |-> IF r.raised # "" \/ bad THEN <<>>
                        ELSE [i \in 1..Len(r.sel) |->
                                LET st == GetStates(buf, r.sel[i])
                                    e == buf[DequeIndex(n, r.sel[i])]
                                IN  [state |-> st.state,
                                     next_state |-> st.next_state,
                                     action |-> e.action,
                                     reward |-> e.reward,
                                     flag |-> e.flag]]] :
            r \in NumpyChoice(pop, b)}

\* src/dqn/dqn_atari.py ReplayBuffer.sample
AtariReplayBuffer_sample ==
    /\ store_kind = "AtariReplayBuffer"
    /\ \E r \in WinSampleResults(buffer, batch_size) :
        /\ outcome' = r.outcome
        /\ population' = r.population
        /\ sample_positions' = r.sample_positions
        /\ reads' = r.reads
        /\ batch' = r.batch
    /\ UNCHANGED <<store_kind, buffer, maxlen, batch_size, pushes>>
    /\ UNCHANGED <<targetVars, loopVars, scheduleVars>>

NextWindow ==
    \/ AtariReplayBuffer_push
    \/ AtariReplayBuffer_sample

SpecWindow == InitWindow /\ [][NextWindow]_vars

\* ------------------------------------------------- target computation
\* values are fixed-point: Fixed(k) is k units of 100
Fixed(k) == k * 100

QValues == {Fixed(-1), Fixed(0), Fixed(1)}

RewardValues == {Fixed(k) : k \in (-MaxReward)..MaxReward}

Gammas == {<<0, 1>>, <<1, 2>>, <<99, 100>>, <<1, 1>>}

ActionIndices == 0..(NumActions - 1)

\* x * g for a fixed-point x and a rational g, rounded down
Scaled(g, x) == (g[1] * x) \div g[2]

\* tensor.argmax(1): the first index holding the largest value
ArgMax(q) ==
    CHOOSE a \in DOMAIN q :
        /\ \A b \in DOMAIN q : q[b] <= q[a]
        /\ \A b \in DOMAIN q : q[b] = q[a] => a <= b

\* variant: the single-estimator maximum of the target network
DoubleQNaiveMax(live, target) == target[ArgMax(target)]

\* action_by_qvalue = policy_net(next_states).argmax(1);
\* max_q_target = target_net(next_states).gather(1, action_by_qvalue)
DoubleQ(live, target) == target[ArgMax(live)]

\* min_qf_next_target = torch.min(critic1_next_target, critic2_next_target)
TwinMin(c1, c2) == Min(c1, c2)

\* env.single_action_space.low / high (td3.py)
ActionSpace == [low |-> -2, high |-> 2]

\* ActorNet.forward: tanh(...) * action_scale + action_bias
ActorOutputs == ActionSpace.low..ActionSpace.high

\* ActorNet.__init__: action_scale = (action_high - action_low) / 2.0
ActionScale == (ActionSpace.high - ActionSpace.low) \div 2

\* torch.randn_like(actions) * args.policy_noise, in action units
RawNoises == (-(MaxNoise + 1))..(MaxNoise + 1)

\* args.noise_clip, in action units
NoiseClips == 0..MaxNoise

\* torch.clamp(x, lo, hi)
Clamp(x, lo, hi) == Min(Max(x, lo), hi)

\* variant: the noise is scaled but not clamped
ClippedNoiseUnclamped(raw, nc) == raw * ActionScale

\* clipped_noise = torch.clamp(randn * policy_noise, -noise_clip, noise_clip)
\*                 * target_actor.action_scale
ClippedNoise(raw, nc) == Clamp(raw, -nc, nc) * ActionScale

\* next_state_actions = torch.clamp(target_actor(next_states) + clipped_noise,
\*                                  action_low, action_high)
SmoothedAction(out, cn) == Clamp(out + cn, ActionSpace.low, ActionSpace.high)

\* a critic network: one value per (next_states, action), here affine in the
\* action with a slope w and an offset b
CriticParams == [w : {-1, 1}, b : {0, 1}]

\* CriticNet.forward(state, action)
CriticNet(params, action) == Fixed(params.w * action + params.b)

\* variant: the terminal flag is ignored
BellmanNoMask(r, f, g, q) == r + Scaled(g, q)

\* rewards + (1. - flags) * args.gamma * bootstrap
Bellman(r, f, g, q) == r + Scaled(g, (1 - f) * q)

InitTarget ==
    /\ algo \in {"dqn", "dqn_atari", "td3"}
    /\ rewards \in RewardValues
    /\ flags \in {0, 1}
    /\ gamma \in Gammas
    /\ IF algo = "td3"
       THEN /\ live_q = <<>>
            /\ target_q = <<>>
            /\ target_actor_out \in ActorOutputs
            /\ raw_noise \in RawNoises
            /\ noise_clip \in NoiseClips
            /\ critic1_target \in CriticParams
            /\ critic2_target \in CriticParams
            /\ clipped_noise = 0
            /\ next_state_actions = 0
       ELSE /\ live_q \in [ActionIndices -> QValues]
            /\ target_q \in [ActionIndices -> QValues]
            /\ SmoothUnused
    /\ critic1_next_target = 0
    /\ critic2_next_target = 0
    /\ bootstrap = 0
    /\ td_target = 0
    /\ tpc = "sampled"
    /\ StoreIdle
    /\ LoopIdle
    /\ ScheduleIdle

\* rl_gym/dqn.py main, lines 216-225
DqnTarget ==
    /\ algo = "dqn"
    /\ tpc = "sampled"
    /\ bootstrap' = DoubleQ(live_q, target_q)
    /\ td_target' = Bellman(rewards, flags, gamma, bootstrap')
    /\ tpc' = "computed"
    /\ UNCHANGED <<algo, rewards, flags, gamma, live_q, target_q,
                   critic1_next_target, critic2_next_target, smoothVars>>
    /\ UNCHANGED <<storeVars, loopVars, scheduleVars>>

\* src/dqn/dqn_atari.py main, lines 248-252
AtariTarget ==
    /\ algo = "dqn_atari"
    /\ tpc = "sampled"
    /\ bootstrap' = DoubleQ(live_q, target_q)
    /\ td_target' = Bellman(rewards, flags, gamma, bootstrap')
    /\ tpc' = "computed"
    /\ UNCHANGED <<algo, rewards, flags, gamma, live_q, target_q,
                   critic1_next_target, critic2_next_target, smoothVars>>
    /\ UNCHANGED <<storeVars, loopVars, scheduleVars>>

\* src/pytorch/td3.py main, lines 223-239
Td3Target ==
    /\ algo = "td3"
    /\ tpc = "sampled"
    /\ clipped_noise' = ClippedNoise(raw_noise, noise_clip)
    /\ next_state_actions' = SmoothedAction(target_actor_out, clipped_noise')
    /\ critic1_next_target' = CriticNet(critic1_target, next_state_actions')
    /\ critic2_next_target' = CriticNet(critic2_target, next_state_actions')
    /\ bootstrap' = TwinMin(critic1_next_target', critic2_next_target')
    /\ td_target' = Bellman(rewards, flags, gamma, bootstrap')
    /\ tpc' = "computed"
    /\ UNCHANGED <<algo, rewards, flags, gamma, live_q, target_q,
                   target_actor_out, raw_noise, noise_clip,
                   critic1_target, critic2_target>>
    /\ UNCHANGED <<storeVars, loopVars, scheduleVars>>

NextTarget ==
    \/ DqnTarget
    \/ AtariTarget
    \/ Td3Target

SpecTarget == InitTarget /\ [][NextTarget]_vars

\* ------------------------------------------------------ training loops
\* probabilities are fixed-point: One is 1.0
One == 1000

\* args.eps_start (default 1) and args.eps_end (default 0.05)
EpsStart == 1000

EpsEnd == 50

\* math.exp(-1 / d) for d = 1..8, in units of 1 / One
ExpNegUnit == <<368, 607, 717, 779, 819, 846, 867, 882>>

\* math.exp(-1.0 * step / decay), rounded down at every factor
RECURSIVE ExpNeg(_, _)
ExpNeg(step, decay) ==
    IF step = 0 THEN One
    ELSE (ExpNeg(step - 1, decay) * ExpNegUnit[decay]) \div One

\* args.eps_end + (args.eps_start - args.eps_end) * math.exp(-1. * step / args.eps_decay)
Epsilon(step, decay) == EpsEnd + ((EpsStart - EpsEnd) * ExpNeg(step, decay)) \div One

\* np.random.rand(): a value of [0, 1)
RandValues == {0, One \div 2, One - 1}

\* if np.random.rand() < eps_threshold: a random action, else the argmax of
\* the live network's output
EpsGreedy(u, eps) == IF u < eps THEN "random" ELSE "policy"

\* the values an optimizer step can leave in a network's parameters
ParamValues == {0, 1}

\* Uniform(action_low, action_high).sample(): a value of [low, high)
UniformSamples == ActionSpace.low..(ActionSpace.high - 1)

\* torch.normal(0, actor.action_scale * args.exploration_noise)
Noises == (-MaxNoise)..MaxNoise

\* action = actor(state); action += torch.normal(...): what td3.py passes to
\* env.step and to replay_buffer.push
Td3Action(out, noise) == out + noise

\* if global_step < args.learning_start (td3.py)
Td3Warmup(g) == g < cfg.learning_start

\* target_param.data.copy_(tau * param.data + (1 - tau) * target_param.data)
SoftUpdate(tau, param, target_param) ==
    (tau[1] * param + (tau[2] - tau[1]) * target_param) \div tau[2]

\* target_net.load_state_dict(policy_net.state_dict())
HardCopy(policy) == policy

\* variant: the update is not gated on learning_start
DqnTrainDueUngated(g) == g % cfg.train_frequency = 0

\* rl_gym/dqn.py: if global_step > args.learning_start:
\*                    if global_step % args.train_frequency == 0:
DqnTrainDue(g) == g > cfg.learning_start /\ g % cfg.train_frequency = 0

\* variant: the target is copied after every optimizer step
DqnSyncDueAlways(g) == TRUE

\* rl_gym/dqn.py, inside the update: if global_step % args.target_network_frequency == 0:
DqnSyncDue(g) == g % cfg.target_network_frequency = 0

\* variant: the update starts at global_step = learning_start
AtariTrainDueFromStart(g) == g >= cfg.learning_start /\ g % cfg.train_frequency = 0

\* src/dqn/dqn_atari.py: the same two conditions
AtariTrainDue(g) == g > cfg.learning_start /\ g % cfg.train_frequency = 0

\* src/pytorch/td3.py: if global_step > args.learning_start:
Td3TrainDue(g) == g > cfg.learning_start

\* src/pytorch/td3.py: if global_step % args.policy_frequency == 0:
Td3PolicyDue(g) == g % cfg.policy_frequency = 0

\* variant: the second target critic is copied outright (tau = 1)
Td3TauFixedCritic2(target) == IF target = "critic2_target" THEN <<1, 1>> ELSE cfg.tau

\* the tau td3.py uses for each of its three target networks: args.tau
Td3Tau(target) == cfg.tau

\* the counts after an iteration that made (train) an optimizer step and
\* (sync) a synchronisation of the target(s)
HistAfter(h, train, sync) ==
    LET since1 == IF train THEN h.since + 1 ELSE h.since IN
    [opt_steps |-> IF train THEN h.opt_steps + 1 ELSE h.opt_steps,
     syncs |-> IF sync THEN h.syncs + 1 ELSE h.syncs,
     since |-> IF sync THEN 0 ELSE since1,
     gap |-> IF sync /\ h.syncs >= 1 THEN since1
             ELSE IF sync THEN 0 ELSE h.gap]

NoSample ==
    [outcome |-> "none", sample_positions |-> <<>>, batch |-> <<>>,
     population |-> {}, reads |-> {}]

Algos == {"dqn", "dqn_atari", "td3"}

\* args.total_timesteps
TotalTimesteps == {MaxSteps - 1, MaxSteps}

\* args.learning_start (dqn_atari.py: raised by Window - 1, so that some runs
\* reach an update with enough entries behind the first sample index)
LearningStarts == {0, 2}

\* <<args.buffer_size, args.batch_size>>
StoreSizes == {<<2, 1>>, <<2, 2>>, <<1, 2>>, <<3, 3>>}

\* the arguments each script can be started with
Configs(a) ==
    IF a = "dqn"
    THEN {[total_timesteps |-> total, learning_start |-> ls,
           train_frequency |-> tf, target_network_frequency |-> k,
           policy_frequency |-> 1, tau |-> <<1, 1>>, eps_decay |-> 2] :
            total \in TotalTimesteps, ls \in LearningStarts,
            tf \in 1..MaxFrequency, k \in 1..MaxFrequency}
    ELSE IF a = "dqn_atari"
    THEN {[total_timesteps |-> total, learning_start |-> ls + Window - 1,
           train_frequency |-> tf, target_network_frequency |-> 1,
           policy_frequency |-> 1, tau |-> <<1, 2>>,
           eps_decay |-> total \div 10] :
            total \in TotalTimesteps, ls \in LearningStarts, tf \in 1..MaxFrequency}
    ELSE {[total_timesteps |-> total, learning_start |-> ls,
           train_frequency |-> 1, target_network_frequency |-> 1,
           policy_frequency |-> pf, tau |-> <<1, 2>>, eps_decay |-> 1] :
            total \in TotalTimesteps, ls \in LearningStarts, pf \in 1..MaxFrequency}

\* the networks as constructed: every target starts as a copy of its live network
InitialNets(a) ==
    IF a = "td3"
    THEN {[actor |-> p, critic1 |-> c1, critic2 |-> c2,
           target_actor |-> HardCopy(p), critic1_target |-> HardCopy(c1),
           critic2_target |-> HardCopy(c2)] :
            p \in ParamValues, c1 \in ParamValues, c2 \in ParamValues}
    ELSE {[policy |-> p, target |-> HardCopy(p)] : p \in ParamValues}

InitLoop ==
    /\ algo \in Algos
    /\ TargetUnused
    /\ store_kind = (IF algo = "dqn" THEN "ReplayMemory"
                     ELSE IF algo = "td3" THEN "ReplayBuffer"
                     ELSE "AtariReplayBuffer")
    /\ \E sz \in StoreSizes :
        /\ maxlen = (IF algo = "dqn_atari" THEN sz[1] + FirstSampleIndex ELSE sz[1])
        /\ batch_size = sz[2]
    /\ buffer = <<>>
    /\ pushes = 0
    /\ outcome = "none"
    /\ sample_positions = <<>>
    /\ batch = <<>>
    /\ population = {}
    /\ reads = {}
    /\ cfg \in Configs(algo)
    /\ net \in InitialNets(algo)
    /\ global_step = 0
    /\ lpc = "act"
    /\ it = NoIteration
    /\ hist = NoHistory
    /\ ScheduleIdle

\* the record of an iteration that has acted and not yet updated
Acted(g, source, u, eps, action) ==
    [step |-> g, source |-> source, u |-> u, eps |-> eps, action |-> action,
     stepped |-> {}, written |-> {}, raised |-> ""]

\* replay_memory.push / replay_buffer.push inside the loop
LoopPush(t) ==
    /\ buffer' = DequeAppend(buffer, maxlen, t)
    /\ pushes' = pushes + 1
    /\ outcome' = "none"
    /\ sample_positions' = <<>>
    /\ batch' = <<>>
    /\ population' = {}
    /\ reads' = {}

\* an iteration without an update
LoopSkip ==
    /\ global_step' = global_step + 1
    /\ lpc' = "act"
    /\ UNCHANGED <<buffer, pushes, outcome, sample_positions, batch, population,
                   reads, net, it, hist>>

\* the sample call of an update raised: the exception ends the run
LoopRaise(r) ==
    /\ lpc' = "crashed"
    /\ it' = [it EXCEPT !.raised = r.outcome]
    /\ UNCHANGED <<global_step, net, hist>>

\* rl_gym/dqn.py main, lines 169-205: choose the action, step the
\* environment, push the transition
DqnAct ==
    /\ algo = "dqn"
    /\ lpc = "act"
    /\ global_step < cfg.total_timesteps
    /\ LET g == global_step
           eps == Epsilon(g, cfg.eps_decay)
       IN  \E u \in RandValues :
            /\ it' = Acted(g, EpsGreedy(u, eps), u, eps, 0)
            /\ LoopPush(Transition(g + 1))
    /\ lpc' = "update"
    /\ UNCHANGED <<store_kind, maxlen, batch_size, global_step, cfg, net, hist>>
    /\ UNCHANGED <<targetVars, scheduleVars>>

\* rl_gym/dqn.py main, lines 207-239: the gated update of the iteration
DqnUpdate ==
    /\ algo = "dqn"
    /\ lpc = "update"
    /\ LET g == global_step
           sync == DqnSyncDue(g)
       IN  IF ~DqnTrainDue(g) THEN LoopSkip
           ELSE \E r \in SampleResults(buffer, batch_size) :
                /\ outcome' = r.outcome
                /\ sample_positions' = r.sample_positions
                /\ batch' = r.batch
                /\ UNCHANGED <<buffer, pushes, population, reads>>
                /\ IF r.outcome # "batch" THEN LoopRaise(r)
                   ELSE \E stepped \in ParamValues :
                        /\ net' = [policy |-> stepped,
                                   target |-> IF sync THEN HardCopy(stepped)
                                              ELSE net.target]
                        /\ it' = [it EXCEPT !.stepped = {"policy"},
                                            !.written = IF sync THEN {"target"} ELSE {}]
                        /\ hist' = HistAfter(hist, TRUE, sync)
                        /\ global_step' = g + 1
                        /\ lpc' = "act"
    /\ UNCHANGED <<store_kind, maxlen, batch_size, cfg>>
    /\ UNCHANGED <<targetVars, scheduleVars>>

\* src/dqn/dqn_atari.py main, lines 210-239
AtariAct ==
    /\ algo = "dqn_atari"
    /\ lpc = "act"
    /\ global_step < cfg.total_timesteps
    /\ LET g == global_step IN
       IF cfg.eps_decay = 0
       THEN \* get_exploration_prob divides by args.eps_decay
            /\ it' = [NoIteration EXCEPT !.step = g, !.raised = "ZeroDivisionError"]
            /\ lpc' = "crashed"
            /\ UNCHANGED <<buffer, pushes, outcome, sample_positions, batch,
                           population, reads>>
       ELSE LET eps == Epsilon(g, cfg.eps_decay) IN
            \E u \in RandValues :
                /\ it' = Acted(g, EpsGreedy(u, eps), u, eps, 0)
                /\ LoopPush(WinTransition(g + 1))
                /\ lpc' = "update"
    /\ UNCHANGED <<store_kind, maxlen, batch_size, global_step, cfg, net, hist>>
    /\ UNCHANGED <<targetVars, scheduleVars>>

\* src/dqn/dqn_atari.py main, lines 241-267
AtariUpdate ==
    /\ algo = "dqn_atari"
    /\ lpc = "update"
    /\ LET g == global_step IN
       IF ~AtariTrainDue(g) THEN LoopSkip
       ELSE \E r \in WinSampleResults(buffer, batch_size) :
            /\ outcome' = r.outcome
            /\ sample_positions' = r.sample_positions
            /\ batch' = r.batch
            /\ population' = r.population
            /\ reads' = r.reads
            /\ UNCHANGED <<buffer, pushes>>
            /\ IF r.outcome # "batch" THEN LoopRaise(r)
               ELSE \E stepped \in ParamValues :
                    /\ net' = [policy |-> stepped,
                               target |-> SoftUpdate(cfg.tau, stepped, net.target)]
                    /\ it' = [it EXCEPT !.stepped = {"policy"}, !.written = {"target"}]
                    /\ hist' = HistAfter(hist, TRUE, TRUE)
                    /\ global_step' = g + 1
                    /\ lpc' = "act"
    /\ UNCHANGED <<store_kind, maxlen, batch_size, cfg>>
    /\ UNCHANGED <<targetVars, scheduleVars>>

\* src/pytorch/td3.py main, lines 194-216
Td3Act ==
    /\ algo = "td3"
    /\ lpc = "act"
    /\ global_step < cfg.total_timesteps
    /\ LET g == global_step
           warmup == Td3Warmup(g)
       IN  \E action \in (IF warmup THEN UniformSamples
                          ELSE {Td3Action(out, noise) :
                                  out \in ActorOutputs, noise \in Noises}) :
            /\ it' = Acted(g, IF warmup THEN "random" ELSE "policy", 0, 0, action)
            /\ LoopPush(Transition(g + 1))
    /\ lpc' = "update"
    /\ UNCHANGED <<store_kind, maxlen, batch_size, global_step, cfg, net, hist>>
    /\ UNCHANGED <<targetVars, scheduleVars>>

\* src/pytorch/td3.py main, lines 218-270
Td3Update ==
    /\ algo = "td3"
    /\ lpc = "update"
    /\ LET g == global_step
           delayed == Td3PolicyDue(g)
       IN  IF ~Td3TrainDue(g) THEN LoopSkip
           ELSE \E r \in SampleResults(buffer, batch_size) :
                /\ outcome' = r.outcome
                /\ sample_positions' = r.sample_positions
                /\ batch' = r.batch
                /\ UNCHANGED <<buffer, pushes, population, reads>>
                /\ IF r.outcome # "batch" THEN LoopRaise(r)
                   ELSE \E c1 \in ParamValues, c2 \in ParamValues :
                        \E a \in (IF delayed THEN ParamValues ELSE {net.actor}) :
                        /\ net' =
                            IF delayed
                            THEN [actor |-> a, critic1 |-> c1, critic2 |-> c2,
                                  target_actor |->
                                    SoftUpdate(Td3Tau("target_actor"), a,
                                               net.target_actor),
                                  critic1_target |->
                                    SoftUpdate(Td3Tau("critic1_target"), c1,
                                               net.critic1_target),
                                  critic2_target |->
                                    SoftUpdate(Td3Tau("critic2_target"), c2,
                                               net.critic2_target)]
                            ELSE [net EXCEPT !.critic1 = c1, !.critic2 = c2]
                        /\ it' = [it EXCEPT
                                    !.stepped = IF delayed
                                                THEN {"critic1", "critic2", "actor"}
                                                ELSE {"critic1", "critic2"},
                                    !.written = IF delayed
                                                THEN {"target_actor", "critic1_target",
                                                      "critic2_target"}
                                                ELSE {}]
                        /\ hist' = HistAfter(hist, TRUE, delayed)
                        /\ global_step' = g + 1
                        /\ lpc' = "act"
    /\ UNCHANGED <<store_kind, maxlen, batch_size, cfg>>
    /\ UNCHANGED <<targetVars, scheduleVars>>

\* the loop is exhausted: env.close(); writer.close()
LoopExit ==
    /\ lpc = "act"
    /\ global_step = cfg.total_timesteps
    /\ lpc' = "done"
    /\ UNCHANGED <<global_step, cfg, net, it, hist>>
    /\ UNCHANGED <<storeVars, targetVars, scheduleVars>>

NextLoop ==
    \/ DqnAct
    \/ DqnUpdate
    \/ AtariAct
    \/ AtariUpdate
    \/ Td3Act
    \/ Td3Update
    \/ LoopExit

SpecLoop == InitLoop /\ [][NextLoop]_vars

\* ------------------------------------------------ exploration schedule
\* args.eps_start and args.eps_end, in units of 1 / One
EpsValues == {0, EpsEnd, One \div 2, EpsStart}

\* args.eps_decay, in steps; 0 is what int(total_timesteps * 0.10) gives a
\* short run
Decays == {0, 1, 2, 5}

ScheduleSteps == 0..MaxScheduleStep

\* variant: the value rises from eps_end towards eps_start
get_exploration_prob_rising(es, ee, t, decay) ==
    ee + ((es - ee) * (One - ExpNeg(t, decay))) \div One

\* get_exploration_prob(args, step) of dqn_atari.py, and the eps_threshold
\* expression of rl_gym/dqn.py
get_exploration_prob(es, ee, t, decay) ==
    ee + ((es - ee) * ExpNeg(t, decay)) \div One

InitSchedule ==
    /\ eps_start \in EpsValues
    /\ eps_end \in EpsValues
    /\ eps_decay \in Decays
    /\ at_step = 0
    /\ eps_threshold = 0
    /\ prev_step = -1
    /\ prev_threshold = 0
    /\ spc = "ready"
    /\ StoreIdle
    /\ TargetIdle
    /\ LoopIdle

\* one evaluation of the schedule at a step t
Evaluate ==
    /\ spc \in {"ready", "evaluated"}
    /\ eps_decay # 0
    /\ \E t \in ScheduleSteps :
        /\ at_step' = t
        /\ eps_threshold' = get_exploration_prob(eps_start, eps_end, t, eps_decay)
    /\ prev_step' = (IF spc = "evaluated" THEN at_step ELSE -1)
    /\ prev_threshold' = (IF spc = "evaluated" THEN eps_threshold ELSE 0)
    /\ spc' = "evaluated"
    /\ UNCHANGED <<eps_start, eps_end, eps_decay>>
    /\ UNCHANGED <<storeVars, targetVars, loopVars>>

\* step / args.eps_decay with args.eps_decay = 0
EvaluateRaise ==
    /\ spc = "ready"
    /\ eps_decay = 0
    /\ spc' = "ZeroDivisionError"
    /\ UNCHANGED <<eps_start, eps_end, eps_decay, at_step, eps_threshold,
                   prev_step, prev_threshold>>
    /\ UNCHANGED <<storeVars, targetVars, loopVars>>

NextSchedule ==
    \/ Evaluate
    \/ EvaluateRaise

SpecSchedule == InitSchedule /\ [][NextSchedule]_vars

\* ------------------------------------------------------------- claims

\* C1: after any sequence of pushes on a store of capacity C, the store holds
\* min(pushes, C) transitions, never more than C, and they are the last
\* min(pushes, C) transitions pushed, oldest first (FIFO eviction).
C1_FifoEviction ==
    LET held == Min(pushes, maxlen) IN
    /\ Len(buffer) = held
    /\ Len(buffer) <= maxlen
    /\ buffer = [i \in 1..held |-> Transition(pushes - held + i)]

\* a full store that has evicted at least two transitions
C1_Witness ==
    /\ pushes >= maxlen + 2
    /\ Len(buffer) = maxlen
    /\ maxlen >= 2
    /\ buffer[1] = Transition(pushes - maxlen + 1)

\* C2: sample on n held transitions with batch size b returns b transitions
\* from b pairwise distinct held positions when n >= b, and raises instead of
\* returning a batch when n < b.
C2_SampleDistinctOrFail ==
    /\ outcome = "batch" =>
        /\ Len(buffer) >= batch_size
        /\ Len(sample_positions) = batch_size
        /\ Len(batch) = batch_size
        /\ \A i \in 1..batch_size : sample_positions[i] \in 0..(Len(buffer) - 1)
        /\ \A i, j \in 1..batch_size : i # j => sample_positions[i] # sample_positions[j]
        /\ \A i \in 1..batch_size : batch[i] = buffer[sample_positions[i] + 1]
    /\ outcome = "ValueError" => (Len(buffer) < batch_size /\ batch = <<>>)

\* capacity 3 after four pushes: a batch of 3 is exactly the three held
\* transitions (the 2nd, 3rd and 4th pushed)
C2_Witness ==
    /\ maxlen = 3
    /\ pushes = 4
    /\ batch_size = 3
    /\ outcome = "batch"
    /\ Range(batch) = {Transition(2), Transition(3), Transition(4)}

\* C3 as stated: the indices sample can draw on n entries are exactly those
\* outside the oldest window (4) slots and outside the most recent
\* window-1 (3) slots.
C3_GuardBandAsStated ==
    outcome = "batch" =>
        population = {i \in 0..(Len(buffer) - 1) : i >= 4 /\ i <= Len(buffer) - 1 - 3}

\* C3 amended: the indices sample can draw on n entries are exactly 5..n-1
\* (the oldest five slots are excluded, none of the most recent), the batch
\* is drawn from pairwise distinct indices of that range, and the call
\* raises exactly when the range holds fewer than batch_size indices.
C3_SampleRange ==
    LET n == Len(buffer) IN
    /\ outcome \in {"batch", "ValueError"} => population = 5..(n - 1)
    /\ outcome = "batch" =>
        /\ Len(sample_positions) = batch_size
        /\ \A i \in 1..batch_size : sample_positions[i] \in 5..(n - 1)
        /\ \A i, j \in 1..batch_size : i # j => sample_positions[i] # sample_positions[j]
    /\ outcome = "ValueError" => n - 5 < batch_size
    /\ outcome # "IndexError"

\* both ends of the range are drawn in one batch: the newest slot and slot 5
C3_Witness ==
    /\ outcome = "batch"
    /\ Len(buffer) = 8
    /\ Range(sample_positions) = {5, 7}

\* C4: every index get_states uses on the buffer while a batch is built lies
\* in [0, n): none is negative (no wrap to the newest end), none is past the
\* end, and no read raises.
C4_ReadsInRange ==
    /\ \A j \in reads : 0 <= j /\ j < Len(buffer)
    /\ outcome # "IndexError"

\* the lowest drawable index is drawn: its state stack reaches down to slot 1
C4_Witness ==
    /\ outcome = "batch"
    /\ 5 \in Range(sample_positions)
    /\ 1 \in reads
    /\ Len(buffer) - 1 \in reads

\* C5 as stated: at every iteration with global_step < learning_start the
\* action is random (the live estimator is not consulted) and nothing is
\* updated or synchronised.
C5_WarmupAsStated ==
    (it.source # "none" /\ it.step < cfg.learning_start) =>
        /\ it.source = "random"
        /\ it.stepped = {}
        /\ it.written = {}

\* C5 amended: in the TD3 loop the action is uniform exactly at the iterations
\* with global_step < learning_start; in the two DQN loops it is
\* epsilon-greedy at every iteration, Warmup included (random exactly when the
\* draw is below the exploration value); in all three loops nothing is
\* updated or synchronised at an iteration with global_step <= learning_start;
\* and a run that leaves the loop has made exactly total_timesteps iterations.
C5_Warmup ==
    /\ (it.source # "none" /\ algo = "td3") =>
        (it.source = "random" <=> it.step < cfg.learning_start)
    /\ (it.source # "none" /\ algo \in {"dqn", "dqn_atari"}) =>
        /\ it.source = "random" <=> it.u < EpsEnd + ((EpsStart - EpsEnd) * ExpNeg(it.step, cfg.eps_decay)) \div One
        /\ it.step = 0 => it.source = "random"
    /\ it.step <= cfg.learning_start =>
        /\ it.stepped = {}
        /\ it.written = {}
        /\ hist.opt_steps = 0
        /\ hist.syncs = 0
    /\ it.stepped # {} => it.step > cfg.learning_start
    /\ global_step <= cfg.total_timesteps
    /\ lpc = "done" => global_step = cfg.total_timesteps

\* a DQN iteration inside Warmup whose action is the live network's argmax
C5_Witness ==
    /\ algo \in {"dqn", "dqn_atari"}
    /\ it.step >= 1
    /\ it.step < cfg.learning_start
    /\ it.source = "policy"
    /\ lpc = "act"
    /\ it.stepped = {}

\* C6 as stated: between one hard copy and the next the live network takes
\* K = target_network_frequency optimizer steps, for every train_frequency
\* and K.
C6_EveryKOptimizerSteps ==
    (algo = "dqn" /\ hist.syncs >= 2) => hist.gap = cfg.target_network_frequency

\* C6 amended: the target is overwritten at exactly the iterations with
\* global_step > learning_start where global_step is a multiple of both
\* train_frequency and K, that is once every lcm(train_frequency, K) /
\* train_frequency optimizer steps; right after the copy the target's
\* parameters equal the live network's.
C6_HardCopy ==
    algo = "dqn" =>
        /\ (it.step >= 0 /\ global_step = it.step + 1) =>
            ("target" \in it.written <=>
                /\ it.step > cfg.learning_start
                /\ it.step % cfg.train_frequency = 0
                /\ it.step % cfg.target_network_frequency = 0)
        /\ "target" \in it.written => net.target = net.policy
        /\ hist.syncs >= 2 =>
            /\ (hist.gap * cfg.train_frequency) % cfg.target_network_frequency = 0
            /\ \A m \in 1..(hist.gap - 1) :
                (m * cfg.train_frequency) % cfg.target_network_frequency # 0

\* a second hard copy that comes after fewer than K optimizer steps
C6_Witness ==
    /\ algo = "dqn"
    /\ "target" \in it.written
    /\ hist.syncs >= 2
    /\ hist.gap < cfg.target_network_frequency
    /\ cfg.train_frequency >= 2
    /\ net.target = net.policy

\* C7: in the TD3 loop every training iteration steps both critics; the actor
\* is stepped and the three targets are soft-updated, all with the same tau,
\* exactly at the training iterations where global_step is a multiple of
\* policy_frequency, which come every policy_frequency critic updates; in
\* every other iteration the actor and the three targets keep their values.
C7_DelayedPolicyUpdate ==
    [][(algo = "td3" /\ lpc = "update" /\ lpc' = "act") =>
        LET g == global_step
            training == g > cfg.learning_start
            delayed == training /\ g % cfg.policy_frequency = 0
            targets == {"target_actor", "critic1_target", "critic2_target"}
        IN  /\ it'.stepped = (IF delayed THEN {"critic1", "critic2", "actor"}
                              ELSE IF training THEN {"critic1", "critic2"}
                              ELSE {})
            /\ it'.written = (IF delayed THEN targets ELSE {})
            /\ delayed =>
                /\ net'.target_actor =
                    (cfg.tau[1] * net'.actor
                        + (cfg.tau[2] - cfg.tau[1]) * net.target_actor) \div cfg.tau[2]
                /\ net'.critic1_target =
                    (cfg.tau[1] * net'.critic1
                        + (cfg.tau[2] - cfg.tau[1]) * net.critic1_target) \div cfg.tau[2]
                /\ net'.critic2_target =
                    (cfg.tau[1] * net'.critic2
                        + (cfg.tau[2] - cfg.tau[1]) * net.critic2_target) \div cfg.tau[2]
                /\ hist.syncs >= 1 => hist'.gap = cfg.policy_frequency
            /\ ~delayed =>
                /\ net'.actor = net.actor
                /\ \A t \in targets : net'[t] = net[t]
            /\ ~training => net' = net
      ]_vars

\* a delayed update that follows the previous one by policy_frequency >= 2
\* critic updates and leaves a target between its old value and the live one
C7_Witness ==
    /\ algo = "td3"
    /\ it.written = {"target_actor", "critic1_target", "critic2_target"}
    /\ it.stepped = {"critic1", "critic2", "actor"}
    /\ cfg.policy_frequency >= 2
    /\ hist.syncs >= 2
    /\ hist.gap = cfg.policy_frequency
    /\ net.critic2 # net.critic2_target

\* C8: every action the TD3 loop passes to env.step and stores in the replay
\* buffer lies within [action_low, action_high].
C8_DispatchedWithinBounds ==
    (algo = "td3" /\ it.source # "none") =>
        (ActionSpace.low <= it.action /\ it.action <= ActionSpace.high)

\* C9: in all three variants the computed target is
\* reward + (1 - flag) * gamma * bootstrap, and for a terminal transition
\* (flag = 1) it is exactly the reward, whatever gamma and the bootstrap
\* value are.
C9_TerminalTargetIsReward ==
    tpc = "computed" =>
        /\ flags = 1 => td_target = rewards
        /\ flags = 0 => td_target = rewards + (gamma[1] * bootstrap) \div gamma[2]

\* a terminal transition whose bootstrap term would otherwise count
C9_Witness ==
    /\ tpc = "computed"
    /\ flags = 1
    /\ gamma[1] > 0
    /\ bootstrap # 0
    /\ td_target = rewards

\* C10: in both DQN variants the bootstrap value is the target estimator's
\* output at an index where the live estimator's output is largest; it never
\* exceeds the largest target output, and it is below it whenever that index
\* is not one where the target's output is largest.
C10_DoubleQ ==
    (tpc = "computed" /\ algo \in {"dqn", "dqn_atari"}) =>
        \E a \in ActionIndices :
            LET target_max == CHOOSE v \in Range(target_q) :
                                 \A b \in ActionIndices : target_q[b] <= v
            IN  /\ \A b \in ActionIndices : live_q[b] <= live_q[a]
                /\ \A b \in ActionIndices : live_q[b] = live_q[a] => a <= b
                /\ bootstrap = target_q[a]
                /\ bootstrap <= target_max
                /\ (bootstrap # target_max) <=> (\E b \in ActionIndices : target_q[b] > target_q[a])

\* the estimators disagree: the live argmax is not a target argmax, and the
\* bootstrap value is strictly below the single-estimator maximum
C10_Witness ==
    /\ tpc = "computed"
    /\ algo \in {"dqn", "dqn_atari"}
    /\ \E a, b \in ActionIndices :
        /\ live_q[a] > live_q[b]
        /\ target_q[a] < target_q[b]
        /\ bootstrap = target_q[a]

\* C11: in the TD3 update the bootstrap value is the smaller of the two
\* target critics' outputs, both taken at the one smoothed target action;
\* the smoothing noise lies within [-noise_clip, noise_clip] * action_scale,
\* and the smoothed action lies within [action_low, action_high].
C11_TwinCriticSmoothedTarget ==
    (tpc = "computed" /\ algo = "td3") =>
        /\ critic1_next_target = Fixed(critic1_target.w * next_state_actions + critic1_target.b)
        /\ critic2_next_target = Fixed(critic2_target.w * next_state_actions + critic2_target.b)
        /\ bootstrap <= critic1_next_target
        /\ bootstrap <= critic2_next_target
        /\ bootstrap \in {critic1_next_target, critic2_next_target}
        /\ -(noise_clip * ActionScale) <= clipped_noise
        /\ clipped_noise <= noise_clip * ActionScale
        /\ ActionSpace.low <= next_state_actions
        /\ next_state_actions <= ActionSpace.high
        /\ \/ next_state_actions = target_actor_out + clipped_noise
           \/ /\ target_actor_out + clipped_noise > ActionSpace.high
              /\ next_state_actions = ActionSpace.high
           \/ /\ target_actor_out + clipped_noise < ActionSpace.low
              /\ next_state_actions = ActionSpace.low

\* the drawn noise exceeds noise_clip, the noisy action exceeds action_high,
\* and the two target critics disagree at the smoothed action
C11_Witness ==
    /\ tpc = "computed"
    /\ algo = "td3"
    /\ noise_clip > 0
    /\ raw_noise > noise_clip
    /\ target_actor_out + clipped_noise > ActionSpace.high
    /\ next_state_actions = ActionSpace.high
    /\ critic1_next_target # critic2_next_target
    /\ bootstrap = critic2_next_target

\* C12: for eps_end <= eps_start and eps_decay > 0 the exploration value
\* depends on the step alone, equals eps_start at step 0, never rises from
\* one step to a later one, stays within [eps_end, eps_start], and
\* approaches eps_end: after one decay constant it is about
\* eps_end + (eps_start - eps_end) / e (0.399 for 1, 0.05), and after three
\* it is within a tenth of the gap from eps_end.
C12_ExponentialDecay ==
    (spc = "evaluated" /\ eps_end <= eps_start /\ eps_decay > 0) =>
        /\ at_step = 0 => eps_threshold = eps_start
        /\ eps_end <= eps_threshold
        /\ eps_threshold <= eps_start
        /\ (prev_step >= 0 /\ prev_step = at_step) => eps_threshold = prev_threshold
        /\ (prev_step >= 0 /\ prev_step <= at_step) => eps_threshold <= prev_threshold
        /\ (prev_step >= 0 /\ prev_step >= at_step) => eps_threshold >= prev_threshold
        /\ at_step = eps_decay =>
               LET expected == eps_end + ((eps_start - eps_end) * 368) \div 1000
               IN  /\ expected - 5 <= eps_threshold
                   /\ eps_threshold <= expected + 5
        /\ at_step >= 3 * eps_decay =>
               10 * (eps_threshold - eps_end) <= eps_start - eps_end

\* eps_start = 1, eps_end = 0.05: the value at one decay constant is about
\* 0.399, below the value of the earlier step 0, which was eps_start
C12_Witness ==
    /\ spc = "evaluated"
    /\ eps_start = EpsStart
    /\ eps_end = EpsEnd
    /\ eps_decay = 5
    /\ prev_step = 0
    /\ prev_threshold = eps_start
    /\ at_step = eps_decay
    /\ eps_threshold < prev_threshold
    /\ eps_threshold >= 395
    /\ eps_threshold <= 400

\* C13: in every loop a sample call happens only in an iteration with
\* global_step > learning_start and after that iteration's push, when the
\* store holds min(global_step + 1, buffer_size) transitions; so when
\* buffer_size >= batch_size and learning_start + 2 >= batch_size (windowed
\* buffer: both reduced by the 5 indices it never draws), no sample call of
\* the run raises for lack of data.
C13_GatedSampleNeverFails ==
    LET reserved == IF algo = "dqn_atari" THEN FirstSampleIndex ELSE 0
    IN  (lpc # "idle" /\ outcome # "none") =>
            /\ it.step > cfg.learning_start
            /\ pushes = it.step + 1
            /\ Len(buffer) = (IF it.step + 1 <= maxlen THEN it.step + 1 ELSE maxlen)
            /\ (/\ maxlen - reserved >= batch_size
                /\ cfg.learning_start + 2 - reserved >= batch_size)
               => (outcome = "batch" /\ it.raised = "" /\ lpc # "crashed")

\* the first update of a windowed run whose arguments meet the bounds with
\* equality: exactly batch_size indices can be drawn, and the sample succeeds
C13_Witness ==
    /\ algo = "dqn_atari"
    /\ outcome = "batch"
    /\ it.step = cfg.learning_start + 1
    /\ cfg.learning_start + 2 - FirstSampleIndex = batch_size
    /\ Len(buffer) - FirstSampleIndex = batch_size
    /\ Len(batch) = batch_size
    /\ batch_size = 2

\* C14: every tuple the windowed sample returns is a transition the agent
\* experienced: for some step k its state holds the frames of the
\* observation the agent acted in at step k, its next_state those of the
\* observation that step produced, and its action, reward and flag are the
\* ones recorded at step k.
C14_ExperiencedTransition ==
    (store_kind = "AtariReplayBuffer" /\ outcome = "batch") =>
        \A i \in DOMAIN batch :
            \E k \in 1..pushes :
                /\ {f.step : f \in Range(batch[i].state)}
                      = {f.step : f \in Range(Observation(k))}
                /\ {f.step : f \in Range(batch[i].next_state)}
                      = {f.step : f \in Range(Observation(k + 1))}
                /\ batch[i].action = WinTransition(k).action
                /\ batch[i].reward = WinTransition(k).reward
                /\ batch[i].flag = WinTransition(k).flag

\* C15: the stack get_states rebuilds for a buffer position holds the same
\* frames in the same order (oldest first, newest last) as the observation
\* that was pushed at that position: next_state for the drawn position,
\* state for the position before it.
C15_StackAsPushed ==
    (store_kind = "AtariReplayBuffer" /\ outcome = "batch") =>
        \A i \in DOMAIN batch :
            LET p == sample_positions[i]
                k == buffer[p + 1].action
            IN  /\ batch[i].next_state = Observation(k)
                /\ batch[i].state = Observation(k - 1)

====
